---- MODULE Spec2Model ----
(***************************************************************************)
(* Model of dav2s3.py: the normal flow of the script (download from        *)
(* WebDAV into 'temp', upload to the S3 bucket, optional remote delete,     *)
(* cleanup with quarantine into 'uncertain') and the upload-only flow.      *)
(*                                                                          *)
(* Strings are sequences of one-character strings, so that path and key     *)
(* handling (rfind, slicing, concatenation) is computed as the code does.   *)
(* Directories are partial functions from bare file names to contents.      *)
(* The WebDAV server and the S3 store are external: their calls either      *)
(* return or raise, which the actions draw with \E.                         *)
(***************************************************************************)
EXTENDS Integers, Sequences, FiniteSets, TLC

VARIABLES
    dav,          \* remote folder: bare file name -> content
    temp,         \* staging directory 'temp': bare file name -> content
    tempExists,   \* whether the directory 'temp' exists
    uncertain,    \* quarantine directory 'uncertain': bare file name -> content
    uncExists,    \* whether the directory 'uncertain' exists
    bucket,       \* S3 bucket: object key -> content
    pc,           \* position of the script: idle, download, upload, delete, cleanup, uploadonly
    args,         \* parsed command line of the current run
    runs,         \* number of runs started
    envSteps,     \* number of steps the remote server has taken
    davSubdir,    \* whether the remote folder holds a sub-folder
    davDeleted,   \* <<name, content>> of every remote file the script has deleted
    h             \* what the current run has done so far (observation only)

vars == <<dav, davSubdir, davDeleted, temp, tempExists, uncertain, uncExists, bucket, pc, args, runs, envSteps, h>>

----------------------------------------------------------------------------
(* Bounds of the model *)

MaxRuns == 2
MaxContent == 2
MaxEnv == 1

(* errno of "directory not empty" on the platform the script is written for  *)
(* (BSD, macOS): handle_residual_files tests e.errno == 66. Where the errno  *)
(* differs (39 on Linux) the function only prints and moves nothing.         *)
ENOTEMPTY == 66

None == <<"None">>
SEP == "/"

\* bare file names, in the order a directory listing returns them
NameOrder == << <<"a">>, <<"b">> >>
Names == {NameOrder[i] : i \in 1..Len(NameOrder)}
Content == 1..MaxContent

\* base_path_dw_logs of the configuration and the -s values of a run
base_path_dw_logs == <<"/", "L">>
SourceFolders == {None, <<"s">>}

\* the -t values of a run
TargetFolders == {None, <<"x">>}

EmptyDir == [n \in {} |-> 0]

----------------------------------------------------------------------------
(* String helpers *)

\* str.find(ch): lowest 0-based index of ch in s, -1 when absent
Find(s, ch) ==
    IF \E i \in 1..Len(s) : s[i] = ch
    THEN (CHOOSE i \in 1..Len(s) : s[i] = ch /\ \A j \in 1..(i-1) : s[j] # ch) - 1
    ELSE -1

\* str.rfind(ch): highest 0-based index of ch in s, -1 when absent
RFind(s, ch) ==
    IF \E i \in 1..Len(s) : s[i] = ch
    THEN (CHOOSE i \in 1..Len(s) : s[i] = ch /\ \A j \in (i+1)..Len(s) : s[j] # ch) - 1
    ELSE -1

\* s[k:] with a 0-based k
From(s, k) == SubSeq(s, k + 1, Len(s))

get_file_name(path) == From(path, RFind(path, SEP) + 1)

----------------------------------------------------------------------------
(* WebDAV listing *)

\* full_source_path of download()
download_source_path(source_folder) ==
    IF source_folder # None
    THEN base_path_dw_logs \o <<SEP>> \o source_folder
    ELSE base_path_dw_logs

\* the paths of the files of the remote folder, in listing order
RECURSIVE FilePaths(_, _, _)
FilePaths(full, d, i) ==
    IF i > Len(NameOrder) THEN <<>>
    ELSE (IF NameOrder[i] \in DOMAIN d THEN << full \o <<SEP>> \o NameOrder[i] >> ELSE <<>>)
         \o FilePaths(full, d, i + 1)

\* webdav.ls(full): the folder itself first, then its sub-folder (a path
\* ending in the separator), then its files
ls(full, d, subdir) ==
    << full \o <<SEP>> >>
    \o (IF subdir THEN << full \o <<SEP, "d", SEP>> >> ELSE <<>>)
    \o FilePaths(full, d, 1)

\* folder_empty returns None (falsy) for a listing of length 0
folder_empty(folder) ==
    IF Len(folder) >= 2 THEN FALSE
    ELSE IF Len(folder) = 1 THEN TRUE
    ELSE FALSE

check_file_temp(tmp, filename) == filename \in DOMAIN tmp

Put(d, n, c) == [k \in DOMAIN d \cup {n} |-> IF k = n THEN c ELSE d[k]]
Drop(d, S) == [k \in DOMAIN d \ S |-> d[k]]

----------------------------------------------------------------------------
(* download *)

\* (mutant) a file that exists in the staging directory is fetched again
RECURSIVE DownloadLoop_Overwrites(_, _, _, _, _, _, _)
DownloadLoop_Overwrites(result, i, d, tmp, cnt, gets, failAt) ==
    IF i > Len(result)
    THEN [temp |-> tmp, count |-> cnt, gets |-> gets, crashed |-> FALSE]
    ELSE LET filename == get_file_name(result[i]) IN
         IF filename # <<>>
         THEN IF filename = failAt
              THEN [temp |-> tmp, count |-> cnt, gets |-> gets, crashed |-> TRUE]
              ELSE DownloadLoop_Overwrites(result, i + 1, d, Put(tmp, filename, d[filename]),
                       IF check_file_temp(tmp, filename) THEN cnt + 1 ELSE cnt,
                       gets \cup {filename}, failAt)
         ELSE DownloadLoop_Overwrites(result, i + 1, d, tmp, cnt, gets, failAt)

\* the loop of download() from entry i on (entry 1 is the folder itself);
\* failAt is the bare name whose webdav.download raises, None for no failure
RECURSIVE DownloadLoop(_, _, _, _, _, _, _)
DownloadLoop(result, i, d, tmp, cnt, gets, failAt) ==
    IF i > Len(result)
    THEN [temp |-> tmp, count |-> cnt, gets |-> gets, crashed |-> FALSE]
    ELSE LET filename == get_file_name(result[i]) IN
         IF filename # <<>>
         THEN IF ~check_file_temp(tmp, filename)
              THEN IF filename = failAt
                   THEN [temp |-> tmp, count |-> cnt, gets |-> gets, crashed |-> TRUE]
                   ELSE DownloadLoop(result, i + 1, d, Put(tmp, filename, d[filename]),
                                     cnt, gets \cup {filename}, failAt)
              ELSE DownloadLoop(result, i + 1, d, tmp, cnt + 1, gets, failAt)
         ELSE DownloadLoop(result, i + 1, d, tmp, cnt, gets, failAt)

\* (mutant) a count of already existing files does not end the run
after_download_IgnoresCount(crashed, err_already_exists) ==
    IF crashed THEN "idle" ELSE "upload"

\* where download() leaves the run: a webdav.download that raises ends it,
\* and so does a count of already existing files of 1 or more (lines 151-156)
after_download(crashed, err_already_exists) ==
    IF crashed THEN "idle"
    ELSE IF err_already_exists >= 1 THEN "idle"
    ELSE "upload"

NewRun ==
    [gets |-> {}, existing |-> 0, temp0 |-> temp,
     upload |-> "notrun", puts |-> {}, deletes |-> {}, listing |-> {},
     cleanup |-> "notrun", preTemp |-> EmptyDir, preUnc |-> EmptyDir,
     preUncExists |-> FALSE, exit |-> "running",
     answer |-> "notasked", announced |-> 0, dlisting |-> {}, delFail |-> None,
     attempts |-> <<>>, failed |-> None]

\* args.search_type when -k is not given (the types are not strings of
\* characters here, but the choices of the option)
NoSearchType == "None"

NoArgs ==
    [source_folder |-> None, target_folder |-> None, upload |-> FALSE,
     delete |-> FALSE, no_confirmation |-> TRUE,
     search_type |-> NoSearchType, search_value |-> None]

Init ==
    /\ dav \in {[n \in S |-> 1] : S \in {{NameOrder[1]}, Names}}
    /\ davSubdir = FALSE
    /\ temp = EmptyDir
    /\ tempExists = FALSE
    /\ uncertain = EmptyDir
    /\ uncExists = FALSE
    /\ bucket \in {[n \in S |-> 0] : S \in {{}, {NameOrder[1]}}}
    /\ pc = "idle"
    /\ args = NoArgs
    /\ runs = 0
    /\ envSteps = 0
    /\ davDeleted = {}
    /\ h = NewRun

\* the script is started with a parsed command line; criteria are the -k / -f
\* pairs it can be given, and -k without -f ends it at once
Start(criteria, maxRuns) ==
    /\ pc = "idle"
    /\ runs < maxRuns
    /\ runs' = runs + 1
    /\ \E s \in SourceFolders, t \in TargetFolders, u, d, n \in BOOLEAN, k \in criteria :
          \* an option the run never reads is left at its default
          /\ u => (s = None /\ ~d)
          /\ ~d => n
          /\ args' = [source_folder |-> s, target_folder |-> t, upload |-> u,
                      delete |-> d, no_confirmation |-> n,
                      search_type |-> k.type, search_value |-> k.value]
    /\ pc' = IF args'.search_type # NoSearchType /\ args'.search_value = None THEN "idle"
             ELSE IF args'.upload THEN "uploadonly"
             ELSE "download"
    /\ h' = [NewRun EXCEPT !.exit = IF pc' = "idle" THEN "args" ELSE "running"]
    /\ UNCHANGED <<dav, davSubdir, temp, tempExists, uncertain, uncExists, bucket,
                   envSteps, davDeleted>>

NoCriterion == [type |-> NoSearchType, value |-> None]

\* a run without -k and -f
StartRun == Start({NoCriterion}, MaxRuns)

Exit(where) ==
    /\ pc' = "idle"
    /\ h' = [h EXCEPT !.exit = where]

Download ==
    /\ pc = "download"
    /\ tempExists' = TRUE
    /\ UNCHANGED <<dav, davSubdir, uncertain, uncExists, bucket, args, runs, envSteps,
                   davDeleted>>
    /\ \/ \* webdav.ls raises
          /\ temp' = temp
          /\ Exit("download-ls")
       \/ LET result == ls(download_source_path(args.source_folder), dav, davSubdir) IN
          IF folder_empty(result)
          THEN /\ temp' = temp
               /\ Exit("download-empty")
          ELSE \E failAt \in {None} \cup (DOMAIN dav \ DOMAIN temp) :
                 LET r == DownloadLoop(result, 2, dav, temp, 0, {}, failAt) IN
                 /\ temp' = r.temp
                 /\ pc' = after_download(r.crashed, r.count)
                 /\ h' = [h EXCEPT !.gets = r.gets, !.existing = r.count,
                                   !.listing = {get_file_name(result[i]) : i \in 2..Len(result)}
                                               \ {<<>>},
                                   !.exit = IF r.crashed THEN "download-get"
                                            ELSE IF pc' = "idle" THEN "download-exists"
                                            ELSE "running"]

----------------------------------------------------------------------------
(* upload *)

\* the destination prefix as upload() rewrites it (target_path is a string)
normalize_target(target_path) ==
    LET t1 == IF Find(target_path, SEP) = 0 THEN From(target_path, 1) ELSE target_path
    IN  IF Find(t1, SEP) = -1 \/ RFind(t1, SEP) = Len(t1) - 1
        THEN t1 \o <<SEP>>
        ELSE t1

\* Key of bucket.put_object for a file of the local directory
put_key(target_path, file) == normalize_target(target_path) \o file

\* the orders in which listdir can return the files of S
Orders(S) ==
    {o \in [1..Cardinality(S) -> S] : \A i, j \in DOMAIN o : o[i] = o[j] => i = j}

\* (mutant) a put that raises is reported, and the loop goes on
RECURSIVE UploadLoop_Continues(_, _, _, _, _, _, _, _)
UploadLoop_Continues(files, i, target_path, tmp, b, failing, puts, attempts) ==
    IF i > Len(files)
    THEN [result |-> IF \E k \in DOMAIN files : files[k] \in failing
                     THEN "False" ELSE "True",
          bucket |-> b, puts |-> puts, attempts |-> attempts,
          failed |-> IF \E k \in DOMAIN files : files[k] \in failing
                     THEN files[CHOOSE k \in DOMAIN files :
                                   /\ files[k] \in failing
                                   /\ \A m \in 1..(k - 1) : files[m] \notin failing]
                     ELSE None]
    ELSE LET _file == files[i] IN
         IF _file \in failing
         THEN UploadLoop_Continues(files, i + 1, target_path, tmp, b, failing, puts,
                                   Append(attempts, _file))
         ELSE UploadLoop_Continues(files, i + 1, target_path, tmp,
                                   Put(b, put_key(target_path, _file), tmp[_file]),
                                   failing, puts \cup {_file}, Append(attempts, _file))

\* the loop of upload() from file i on: failing are the files whose open or
\* put_object raises, attempts the files a put was tried for, in order
RECURSIVE UploadLoop(_, _, _, _, _, _, _, _)
UploadLoop(files, i, target_path, tmp, b, failing, puts, attempts) ==
    IF i > Len(files)
    THEN [result |-> "True", bucket |-> b, puts |-> puts, attempts |-> attempts,
          failed |-> None]
    ELSE LET _file == files[i] IN
         IF _file \in failing
         THEN [result |-> "False", bucket |-> b, puts |-> puts,
               attempts |-> Append(attempts, _file), failed |-> _file]
         ELSE UploadLoop(files, i + 1, target_path, tmp,
                         Put(b, put_key(target_path, _file), tmp[_file]),
                         failing, puts \cup {_file}, Append(attempts, _file))

\* get_bucket(): store is "ok" (the bucket is found), "missing" (it returns
\* None) or "unreachable" (listing the buckets raises)
get_bucket(store) ==
    IF store = "unreachable" THEN "raised"
    ELSE IF store = "ok" THEN "bucket"
    ELSE "None"

\* upload(): files is the listing of the local directory, failing the files
\* whose put raises. result is what upload() returns ("True", "False",
\* "None") or "raised" when it raises.
upload(target_path, tmp, tmpExists, b, store, files, failing) ==
    LET nothing == [bucket |-> b, puts |-> {}, attempts |-> <<>>, failed |-> None]
    IN  IF target_path = None
        THEN [result |-> "raised"] @@ nothing
        ELSE IF get_bucket(store) = "raised"
        THEN [result |-> "raised"] @@ nothing
        ELSE IF get_bucket(store) = "None"
        THEN [result |-> "None"] @@ nothing
        ELSE IF ~tmpExists
        THEN [result |-> "raised"] @@ nothing
        ELSE UploadLoop(files, 1, target_path, tmp, b, failing, {}, <<>>)

Stores == {"ok", "missing", "unreachable"}

\* (mutant) an exception of upload() does not end the run
after_upload_IgnoresRaise(result, delete) ==
    IF delete THEN "delete" ELSE "cleanup"

\* what the main program does with the outcome of upload('temp', ...):
\* only an exception ends the run, the return value is not looked at
after_upload(result, delete) ==
    IF result = "raised" THEN "idle"
    ELSE IF delete THEN "delete"
    ELSE "cleanup"

Upload ==
    /\ pc = "upload"
    /\ \E store \in Stores, files \in Orders(DOMAIN temp), failing \in SUBSET DOMAIN temp :
          LET r == upload(args.target_folder, temp, tempExists, bucket, store, files,
                          failing)
          IN  /\ bucket' = r.bucket
              /\ pc' = after_upload(r.result, args.delete)
              /\ h' = [h EXCEPT !.upload = r.result, !.puts = r.puts,
                                !.attempts = r.attempts, !.failed = r.failed,
                                !.exit = IF pc' = "idle" THEN "upload" ELSE "running"]
    /\ UNCHANGED <<dav, davSubdir, davDeleted, temp, tempExists, uncertain, uncExists,
                   args, runs, envSteps>>

\* the -u run: upload only, then exit
UploadOnly ==
    /\ pc = "uploadonly"
    /\ \E store \in Stores, files \in Orders(DOMAIN temp), failing \in SUBSET DOMAIN temp :
          LET r == upload(args.target_folder, temp, tempExists, bucket, store, files,
                          failing)
          IN  /\ bucket' = r.bucket
              /\ pc' = "idle"
              /\ h' = [h EXCEPT !.upload = r.result, !.puts = r.puts,
                                !.attempts = r.attempts, !.failed = r.failed, !.exit = "uploadonly"]
    /\ UNCHANGED <<dav, davSubdir, davDeleted, temp, tempExists, uncertain, uncExists,
                   args, runs, envSteps>>

----------------------------------------------------------------------------
(* delete *)

\* (mutant) every listed file is deleted, staged or not
RECURSIVE DeleteLoop_NoStagedCheck(_, _, _, _, _, _, _)
DeleteLoop_NoStagedCheck(result, i, full, d, tmp, deleted, failAt) ==
    IF i > Len(result)
    THEN [dav |-> d, deleted |-> deleted, crashed |-> FALSE]
    ELSE LET filename == get_file_name(result[i]) IN
         IF filename # <<>>
         THEN IF filename = failAt
              THEN [dav |-> d, deleted |-> deleted, crashed |-> TRUE]
              ELSE LET target == get_file_name(full \o <<SEP>> \o filename)
                   IN  DeleteLoop_NoStagedCheck(result, i + 1, full, Drop(d, {target}), tmp,
                                                deleted \cup {target}, failAt)
         ELSE DeleteLoop_NoStagedCheck(result, i + 1, full, d, tmp, deleted, failAt)

\* the loop of delete() from entry i on; failAt is the bare name whose
\* webdav.delete raises, None for no failure
RECURSIVE DeleteLoop(_, _, _, _, _, _, _)
DeleteLoop(result, i, full, d, tmp, deleted, failAt) ==
    IF i > Len(result)
    THEN [dav |-> d, deleted |-> deleted, crashed |-> FALSE]
    ELSE LET filename == get_file_name(result[i]) IN
         IF filename # <<>> /\ check_file_temp(tmp, filename)
         THEN IF filename = failAt
              THEN [dav |-> d, deleted |-> deleted, crashed |-> TRUE]
              ELSE LET target == get_file_name(full \o <<SEP>> \o filename)
                   IN  DeleteLoop(result, i + 1, full, Drop(d, {target}), tmp,
                                  deleted \cup {target}, failAt)
         ELSE DeleteLoop(result, i + 1, full, d, tmp, deleted, failAt)

\* (mutant) the reply to the prompt is not looked at
delete_IgnoresAnswer(source_folder, no_confirm, answer, d, subdir, tmp, failAt) ==
    LET full == base_path_dw_logs \o <<SEP>> \o source_folder
        result == ls(full, d, subdir)
    IN  IF ~folder_empty(result)
        THEN DeleteLoop(result, 2, full, d, tmp, {}, failAt)
             @@ [declined |-> FALSE]
        ELSE [dav |-> d, deleted |-> {}, crashed |-> FALSE, declined |-> FALSE]

\* delete(): answer is what the user replies to the prompt
delete(source_folder, no_confirm, answer, d, subdir, tmp, failAt) ==
    LET full == base_path_dw_logs \o <<SEP>> \o source_folder
        result == ls(full, d, subdir)
        user_confirmation == IF no_confirm THEN answer ELSE TRUE
    IN  IF user_confirmation
        THEN IF ~folder_empty(result)
             THEN DeleteLoop(result, 2, full, d, tmp, {}, failAt)
                  @@ [declined |-> FALSE]
             ELSE [dav |-> d, deleted |-> {}, crashed |-> FALSE, declined |-> FALSE]
        ELSE [dav |-> d, deleted |-> {}, crashed |-> FALSE, declined |-> TRUE]

Delete ==
    /\ pc = "delete"
    /\ UNCHANGED <<davSubdir, temp, tempExists, uncertain, uncExists, bucket, args, runs,
                   envSteps>>
    /\ \/ \* source_folder is None (str + None raises) or webdav.ls raises
          /\ UNCHANGED <<dav, davDeleted>>
          /\ Exit("delete-crash")
       \/ /\ args.source_folder # None
          /\ \E answer \in BOOLEAN, failAt \in {None} \cup (DOMAIN dav \cap DOMAIN temp) :
               LET r == delete(args.source_folder, args.no_confirmation, answer,
                               dav, davSubdir, temp, failAt)
                   result == ls(base_path_dw_logs \o <<SEP>> \o args.source_folder,
                                dav, davSubdir)
               IN  /\ dav' = r.dav
                   /\ davDeleted' = davDeleted \cup {<<n, dav[n]>> : n \in r.deleted}
                   /\ pc' = IF r.crashed \/ r.declined THEN "idle" ELSE "cleanup"
                   /\ h' = [h EXCEPT !.deletes = r.deleted,
                                     \* the prompt is shown when no_confirm is set
                                     \* and announces len(result) - 1 files
                                     !.answer = IF ~args.no_confirmation THEN "notasked"
                                                ELSE IF answer THEN "yes" ELSE "no",
                                     !.announced = IF args.no_confirmation
                                                   THEN Len(result) - 1 ELSE 0,
                                     !.dlisting = {get_file_name(result[i]) :
                                                       i \in 2..Len(result)} \ {<<>>},
                                     !.delFail = IF r.crashed THEN failAt ELSE None,
                                     !.exit = IF r.crashed THEN "delete-crash"
                                              ELSE IF r.declined THEN "delete-declined"
                                              ELSE "running"]

----------------------------------------------------------------------------
(* cleanup *)

\* handle_residual_files(): removedirs('temp') succeeds on an empty
\* directory; otherwise it raises with errno ENOTEMPTY and the residual
\* files are moved one by one. shutil.move raises when the destination
\* holds the name already; moved are the files moved before that.
handle_residual_files(tmp, unc, uncEx, moved) ==
    IF DOMAIN tmp = {}
    THEN [temp |-> tmp, tempExists |-> FALSE, uncertain |-> unc, uncExists |-> uncEx]
    ELSE IF ENOTEMPTY = 66
    THEN [temp |-> Drop(tmp, moved), tempExists |-> TRUE,
          uncertain |-> [k \in DOMAIN unc \cup moved |->
                            IF k \in moved THEN tmp[k] ELSE unc[k]],
          uncExists |-> TRUE]
    ELSE [temp |-> tmp, tempExists |-> TRUE, uncertain |-> unc, uncExists |-> uncEx]

\* (mutant) a move onto a name that the destination holds replaces the file
Moves_Overwrites(tmp, unc) == {DOMAIN tmp}

\* the sets of files that the move loop can have moved when it ends
Moves(tmp, unc) ==
    LET colliding == DOMAIN tmp \cap DOMAIN unc
    IN  IF colliding = {} THEN {DOMAIN tmp}
        ELSE SUBSET (DOMAIN tmp \ colliding)

\* the staged files whose bare name is the key of an object of the bucket
confirmed(tmp, b) == {f \in DOMAIN tmp : \E key \in DOMAIN b : f = key}

\* (mutant) without a bucket, every staged file counts as unconfirmed
cleanup_QuarantinesWithoutBucket(tmp, tmpExists, unc, uncEx, b, store, moved) ==
    IF ~tmpExists
    THEN [temp |-> tmp, tempExists |-> tmpExists, uncertain |-> unc, uncExists |-> uncEx]
    ELSE IF get_bucket(store) # "bucket"
    THEN handle_residual_files(tmp, unc, uncEx, DOMAIN tmp \ DOMAIN unc)
    ELSE handle_residual_files(Drop(tmp, confirmed(tmp, b)), unc, uncEx, moved)

\* cleanup()
cleanup(tmp, tmpExists, unc, uncEx, b, store, moved) ==
    IF ~tmpExists \/ get_bucket(store) # "bucket"
    THEN [temp |-> tmp, tempExists |-> tmpExists, uncertain |-> unc, uncExists |-> uncEx]
    ELSE handle_residual_files(Drop(tmp, confirmed(tmp, b)), unc, uncEx, moved)

Cleanup ==
    /\ pc = "cleanup"
    /\ \E store \in Stores :
       \E moved \in Moves(Drop(temp, confirmed(temp, bucket)), uncertain) :
          LET r == cleanup(temp, tempExists, uncertain, uncExists, bucket, store, moved)
          IN  /\ temp' = r.temp
              /\ tempExists' = r.tempExists
              /\ uncertain' = r.uncertain
              /\ uncExists' = r.uncExists
              /\ pc' = "idle"
              /\ h' = [h EXCEPT !.cleanup = store, !.preTemp = temp,
                                !.preUnc = uncertain, !.preUncExists = uncExists,
                                !.exit = "end"]
    /\ UNCHANGED <<dav, davSubdir, davDeleted, bucket, args, runs, envSteps>>

----------------------------------------------------------------------------
(* the remote server writes a log file *)

\* download and delete are the only readers of the remote folder, so the
\* server acts ahead of either of them: before a run that is still to come,
\* or between the staging and the delete step
EnvTurn == (pc = "idle" /\ runs < MaxRuns) \/ pc = "delete"

EnvRemoteWrite ==
    /\ EnvTurn
    /\ envSteps < MaxEnv
    /\ envSteps' = envSteps + 1
    /\ \E n \in Names, c \in Content :
          /\ (n \in DOMAIN dav => c > dav[n])
          /\ dav' = Put(dav, n, c)
    /\ UNCHANGED <<davSubdir, davDeleted, temp, tempExists, uncertain, uncExists, bucket,
                   pc, args, runs, h>>

\* the remote server creates a sub-folder in the log folder
EnvRemoteMkdir ==
    /\ EnvTurn
    /\ envSteps < MaxEnv
    /\ envSteps' = envSteps + 1
    /\ ~davSubdir
    /\ davSubdir' = TRUE
    /\ UNCHANGED <<dav, davDeleted, temp, tempExists, uncertain, uncExists, bucket,
                   pc, args, runs, h>>

\* the destination prefixes given with -t, for the check of upload() alone
MaxPrefix == 3

Prefixes == UNION {[1..n -> {"x", "y", SEP}] : n \in 0..MaxPrefix}

\* a -u run about to call upload(): the local directory holds any files
InitUpload ==
    /\ dav = EmptyDir
    /\ davSubdir = FALSE
    /\ davDeleted = {}
    /\ \E S \in SUBSET Names : temp \in [S -> Content]
    /\ tempExists = TRUE
    /\ uncertain = EmptyDir
    /\ uncExists = FALSE
    /\ bucket = EmptyDir
    /\ pc = "uploadonly"
    /\ \E t \in Prefixes : args = [NoArgs EXCEPT !.target_folder = t, !.upload = TRUE]
    /\ runs = 1
    /\ envSteps = 0
    /\ h = NewRun

NextUpload == UploadOnly

SpecUpload == InitUpload /\ [][NextUpload]_vars

----------------------------------------------------------------------------
(* runs with a search mask: -k type -f value *)

digits == {"0", "1", "2", "3", "4", "5", "6", "7", "8", "9"}

\* the letters of string.ascii_letters that the model's strings use
ascii_letters == {"a", "b", "l", "s", "x", "y"}

allowed_extfrag_chars == ascii_letters \cup digits \cup {"_", "-"}

\* str.replace(old, '') for a one-character old
RECURSIVE Remove(_, _)
Remove(str, old) ==
    IF str = <<>> THEN <<>>
    ELSE IF Head(str) = old THEN Remove(Tail(str), old)
    ELSE <<Head(str)>> \o Remove(Tail(str), old)

\* int() of a string of digits
DigitValue(c) ==
    CASE c = "0" -> 0 [] c = "1" -> 1 [] c = "2" -> 2 [] c = "3" -> 3 [] c = "4" -> 4
      [] c = "5" -> 5 [] c = "6" -> 6 [] c = "7" -> 7 [] c = "8" -> 8 [] c = "9" -> 9

RECURSIVE ToInt(_)
ToInt(str) ==
    IF str = <<>> THEN 0
    ELSE 10 * ToInt(SubSeq(str, 1, Len(str) - 1)) + DigitValue(str[Len(str)])

IsLeap(y) == (y % 4 = 0 /\ y % 100 # 0) \/ y % 400 = 0

DaysIn(m, y) ==
    IF m = 2 THEN (IF IsLeap(y) THEN 29 ELSE 28)
    ELSE IF m \in {4, 6, 9, 11} THEN 30
    ELSE 31

\* datetime.strptime(value, '%m-%d-%Y') returns (TRUE), or raises ValueError:
\* month and day of one or two digits, a year of four, a date that exists
strptime_mdY(value) ==
    \E i, j \in 1..Len(value) :
        /\ i < j
        /\ value[i] = "-"
        /\ value[j] = "-"
        /\ LET mm == SubSeq(value, 1, i - 1)
               dd == SubSeq(value, i + 1, j - 1)
               yy == SubSeq(value, j + 1, Len(value))
               AllDigits(str) == \A k \in DOMAIN str : str[k] \in digits
           IN  /\ Len(mm) \in 1..2 /\ AllDigits(mm)
               /\ Len(dd) \in 1..2 /\ AllDigits(dd)
               /\ Len(yy) = 4 /\ AllDigits(yy)
               /\ ToInt(mm) \in 1..12
               /\ ToInt(yy) >= 1
               /\ ToInt(dd) \in 1..DaysIn(ToInt(mm), ToInt(yy))

\* validate_search_value(): TRUE, FALSE, or None for a type it does not know
validate_search_value(value, supposed_type) ==
    IF supposed_type = "ext" \/ supposed_type = "frag"
    THEN LET v == Remove(value, "\"")
         IN  \* the result of value.replace('.', '') for 'ext' is dropped
             \A k \in DOMAIN v : v[k] \in allowed_extfrag_chars
    ELSE IF supposed_type = "date-from"
    THEN strptime_mdY(value)
    ELSE IF supposed_type = "size"
    THEN \A k \in DOMAIN value : value[k] \in digits
    ELSE None

\* -k / -f pairs: none, -k alone, and values that validate_search_value
\* accepts and refuses for each type
Criteria ==
    { NoCriterion,
      [type |-> "ext", value |-> None],
      [type |-> "frag", value |-> <<"a">>],
      [type |-> "frag", value |-> <<"a", "!">>],
      [type |-> "ext", value |-> <<"l">>],
      [type |-> "size", value |-> <<"1", "x">>],
      [type |-> "date-from", value |-> <<"0", "2", "-", "3", "0", "-", "2", "0", "1", "9">>] }

MaxSelectRuns == 1

StartSelect == Start(Criteria, MaxSelectRuns)

NextSelect ==
    \/ StartSelect
    \/ Download
    \/ Upload
    \/ UploadOnly
    \/ Delete
    \/ Cleanup

SpecSelect == Init /\ [][NextSelect]_vars

Next ==
    \/ StartRun
    \/ Download
    \/ Upload
    \/ UploadOnly
    \/ Delete
    \/ Cleanup
    \/ EnvRemoteWrite
    \/ EnvRemoteMkdir

Spec == Init /\ [][Next]_vars

----------------------------------------------------------------------------
(* Properties *)

Returned == {"True", "False", "None"}

C3_CollisionBlocksDelete ==
    h.existing >= 1 => (h.deletes = {} /\ pc = "idle" /\ h.upload = "notrun")

\* C3 witness: a run with the delete step requested ended at staging with one
\* file already existing and another one fetched.
C3_Witness ==
    /\ h.existing >= 1
    /\ h.gets # {}
    /\ args.delete
    /\ h.exit = "download-exists"

\* a copy of content c of the file named n is in the bucket (under any
\* prefix), in the staging directory or in the quarantine directory
HasCopy(n, c) ==
    \/ n \in DOMAIN temp /\ temp[n] = c
    \/ n \in DOMAIN uncertain /\ uncertain[n] = c
    \/ \E key \in DOMAIN bucket : get_file_name(key) = n /\ bucket[key] = c

\* C4: every file that the script has deleted from WebDAV still has a copy of
\* its content in the bucket, the staging directory or the quarantine directory.
C4_NoDataLost ==
    \A d \in davDeleted : HasCopy(d[1], d[2])

\* the reconcile step has run with a reachable bucket
Reconciled == h.cleanup = "ok" /\ h.exit = "end"

\* file f was moved from staging to quarantine by the cleanup of this run
MovedToQuarantine(f) ==
    /\ f \notin DOMAIN h.preUnc
    /\ f \in DOMAIN uncertain
    /\ uncertain[f] = h.preTemp[f]

\* C5: after a reconcile step no file remains in staging, every file that was
\* staged is either confirmed (and removed) or moved to quarantine, never
\* both, and staging and quarantine share no file name.
C5_Partition ==
    Reconciled =>
        /\ DOMAIN temp = {}
        /\ DOMAIN temp \cap DOMAIN uncertain = {}
        /\ \A f \in DOMAIN h.preTemp :
              (f \in confirmed(h.preTemp, bucket)) # MovedToQuarantine(f)

\* C6: a full run that starts with an empty staging directory, stages every
\* listed file and has no put fail ends with the staging directory empty and
\* the quarantine directory as it was; with the delete step requested and
\* confirmed, exactly the staged files are deleted from WebDAV.
C6_ScenarioA ==
    (/\ pc = "idle"
     /\ ~args.upload
     /\ h.exit \in {"upload", "end"}
     /\ DOMAIN h.temp0 = {}
     /\ h.gets # {}
     /\ h.gets = h.listing
     /\ (h.upload = "True" \/ (h.upload = "raised" /\ args.target_folder = None))
     /\ h.cleanup \in {"ok", "notrun"})
    => /\ DOMAIN temp = {}
       /\ h.cleanup = "ok" => (uncExists = h.preUncExists /\ uncertain = h.preUnc)
       /\ (args.delete /\ h.exit = "end") => h.deletes = h.gets

\* C7: with a reachable bucket, cleanup removes a staged file from staging if
\* and only if its bare name is the key of an object of the bucket; every
\* other staged file is moved into the quarantine directory.
C7_ConfirmedRemovedOthersMoved ==
    Reconciled =>
        \A f \in DOMAIN h.preTemp :
            IF f \in confirmed(h.preTemp, bucket)
            THEN /\ f \notin DOMAIN temp
                 /\ (f \in DOMAIN uncertain <=> f \in DOMAIN h.preUnc)
            ELSE /\ f \notin DOMAIN temp
                 /\ f \in DOMAIN uncertain
                 /\ uncertain[f] = h.preTemp[f]

\* C8: when the store cannot be reached or the bucket does not exist, cleanup
\* leaves the staging directory and the quarantine directory as they were.
C8_NoVerificationNoChange ==
    (h.cleanup \in {"missing", "unreachable"} /\ h.exit = "end") =>
        /\ temp = h.preTemp
        /\ tempExists
        /\ uncertain = h.preUnc
        /\ uncExists = h.preUncExists

\* C8 witness: cleanup has run without a bucket while files were staged and no
\* quarantine directory existed.
C8_Witness ==
    /\ h.cleanup = "missing"
    /\ h.exit = "end"
    /\ DOMAIN temp # {}
    /\ ~uncExists

\* the staging step of the current run has acted and cleanup has not
Staged == h.exit # "download-ls" /\ pc # "download" /\ runs >= 1 /\ ~args.upload
          /\ h.cleanup = "notrun"

\* C9: download() issues no WebDAV get for a name that exists in staging and
\* leaves that file as it is; a second staging of the same listing changes
\* nothing in staging, fetches nothing and counts every listed file as
\* already existing.
C9_StagingNeverOverwrites ==
    /\ Staged =>
          /\ h.gets \cap DOMAIN h.temp0 = {}
          /\ \A f \in DOMAIN h.temp0 : f \in DOMAIN temp /\ temp[f] = h.temp0[f]
          /\ h.exit # "download-get" =>
                h.existing = Cardinality(h.listing \cap DOMAIN h.temp0)
    /\ pc = "download" =>
          LET result == ls(download_source_path(args.source_folder), dav, davSubdir)
              first == DownloadLoop(result, 2, dav, temp, 0, {}, None)
              second == DownloadLoop(result, 2, dav, first.temp, 0, {}, None)
          IN  /\ second.temp = first.temp
              /\ second.gets = {}
              /\ second.count = Len(FilePaths(<<>>, dav, 1))

\* C9 witness: a staging step met a staged file whose remote content has
\* changed since, and fetched another file.
C9_Witness ==
    /\ Staged
    /\ h.gets # {}
    /\ \E f \in DOMAIN h.temp0 \cap DOMAIN dav : f \in h.listing /\ dav[f] # temp[f]

\* C10: after an upload failure the staged files stay in the staging
\* directory: the run neither removes them nor moves them to quarantine.
C10_StagedKeptAfterUploadFailure ==
    (h.upload \in {"False", "None", "raised"} /\ h.cleanup # "notrun") =>
        (temp = h.preTemp /\ uncertain = h.preUnc)

\* C11: a normal run that starts with files left in the staging directory, and
\* whose WebDAV calls do not fail, uploads the staged files (and goes on to
\* reconcile them).
C11_RerunRecovers ==
    (/\ runs >= 1
     /\ ~args.upload
     /\ DOMAIN h.temp0 # {}
     /\ pc = "idle"
     /\ h.exit \notin {"running", "download-ls", "download-get"})
    => h.upload # "notrun"


\* C12: a WebDAV delete is issued only in a run that asked for the delete
\* step and in which the user answered yes or the confirmation was switched
\* off; after a negative answer the run has issued no delete.
C12_DeleteNeedsConfirmation ==
    /\ h.deletes # {} =>
          /\ args.delete
          /\ h.answer = "yes" \/ ~args.no_confirmation
    /\ h.answer = "no" => h.deletes = {} /\ h.exit = "delete-declined"

\* the user declined while staged files were listed on the remote folder
C12_Witness ==
    /\ h.answer = "no"
    /\ h.dlisting \cap DOMAIN temp # {}
    /\ h.deletes = {}
    /\ pc = "idle"

\* C13: when a webdav.delete of the confirmed delete step fails, the run
\* still attempts the delete of every other listed staged file and goes on
\* to cleanup.
C13_DeleteErrorDoesNotStopRun ==
    h.delFail # None =>
        /\ (h.dlisting \cap DOMAIN temp) \ {h.delFail} \subseteq h.deletes
        /\ pc = "cleanup" \/ h.cleanup # "notrun"

\* C14: when upload() returns False, the last file a put was tried for is the
\* one that failed and every file tried before it was put; when it returns
\* True, every file of the local directory was put, with its content.
C14_UploadFailFast ==
    /\ h.upload = "False" =>
          /\ h.failed # None
          /\ Len(h.attempts) >= 1
          /\ h.attempts[Len(h.attempts)] = h.failed
          /\ h.puts = {h.attempts[i] : i \in 1..(Len(h.attempts) - 1)}
          /\ h.failed \notin h.puts
    /\ (h.upload = "True" /\ h.cleanup = "notrun") =>
          /\ h.failed = None
          /\ h.puts = DOMAIN temp
          /\ \A f \in DOMAIN temp :
                /\ put_key(args.target_folder, f) \in DOMAIN bucket
                /\ bucket[put_key(args.target_folder, f)] = temp[f]
    /\ h.upload \in {"None", "raised", "notrun"} => h.attempts = <<>>

\* the first put of two files failed, and the second file was not tried
C14_Witness ==
    /\ h.upload = "False"
    /\ Len(h.attempts) = 1
    /\ Cardinality(DOMAIN temp) = 2
    /\ h.cleanup = "notrun"

\* the prefix as C15 describes it: the leading separator stripped, then a
\* separator appended when there is none in it or it does not end with one
ClaimedPrefix(target_path) ==
    LET t1 == IF Len(target_path) >= 1 /\ target_path[1] = SEP
              THEN From(target_path, 1) ELSE target_path
    IN  IF Find(t1, SEP) = -1 \/ t1[Len(t1)] # SEP
        THEN t1 \o <<SEP>>
        ELSE t1

\* C15: every file that upload() puts lands under the key made of the
\* normalized prefix (leading separator stripped, one trailing separator
\* appended unless the prefix already ends with one) and the file name.
C15_KeyIsNormalizedPrefixPlusName ==
    \A f \in h.puts :
        /\ put_key(args.target_folder, f) = ClaimedPrefix(args.target_folder) \o f
        /\ ClaimedPrefix(args.target_folder) \o f \in DOMAIN bucket

\* whether a remote file is selected by the search mask, as C16 describes it
\* for the file extension and the name fragment
Matches(name, type, value) ==
    IF type = NoSearchType THEN TRUE
    ELSE IF type = "frag"
    THEN \E i \in 1..(Len(name) - Len(value) + 1) :
             SubSeq(name, i, i + Len(value) - 1) = value
    ELSE IF type = "ext"
    THEN /\ Len(name) > Len(value)
         /\ SubSeq(name, Len(name) - Len(value), Len(name)) = <<".">> \o value
    ELSE FALSE

\* C16: a download() that went through the listing of a run that began with
\* an empty staging directory has staged exactly the listed files that the
\* search mask selects (extension or name fragment; all of them without one).
C16_StagedAreTheSelected ==
    (/\ args.search_type \in {NoSearchType, "ext", "frag"}
     /\ ~args.upload
     /\ DOMAIN h.temp0 = {}
     /\ h.exit \notin {"args", "download-ls", "download-get"}
     /\ pc # "download")
    => h.gets = {n \in h.listing :
                    Matches(n, args.search_type, args.search_value)}

\* C17: a run whose -f value validate_search_value refuses has issued no
\* network call: neither download() nor upload() has begun (the first lists
\* the WebDAV folder, the second the buckets), nothing was staged, put or
\* deleted.
C17_InvalidValueNoNetworkCall ==
    (/\ args.search_type # NoSearchType
     /\ args.search_value # None
     /\ validate_search_value(args.search_value, args.search_type) = FALSE)
    => /\ pc \in {"download", "uploadonly"}
       /\ h.gets = {}
       /\ h.puts = {}
       /\ h.deletes = {}

\* C18: a run whose listing of the remote folder held no file has ended in
\* download(), as a run on an empty folder: upload, delete and cleanup have
\* not been reached.
C18_NothingToTransferAborts ==
    (/\ runs >= 1
     /\ ~args.upload
     /\ pc # "download"
     /\ h.exit \notin {"args", "download-ls"}
     /\ h.listing = {})
    => /\ pc = "idle"
       /\ h.exit = "download-empty"
       /\ h.upload = "notrun"
       /\ h.cleanup = "notrun"

\* C19: no step of the tool removes a file of the quarantine directory or
\* changes its content, and the directory itself is never removed.
C19_QuarantineOnlyGrows ==
    [][/\ \A f \in DOMAIN uncertain :
             f \in DOMAIN uncertain' /\ uncertain'[f] = uncertain[f]
       /\ uncExists => uncExists']_vars

\* cleanup had to quarantine a file whose name the quarantine directory
\* already held with another content, and the older file is still there
C19_Witness ==
    /\ h.cleanup = "ok"
    /\ \E f \in DOMAIN h.preTemp \cap DOMAIN h.preUnc :
          /\ f \notin confirmed(h.preTemp, bucket)
          /\ h.preTemp[f] # h.preUnc[f]
          /\ uncertain[f] = h.preUnc[f]

\* C20: the files that delete() has deleted are files of the listing that
\* delete() made itself and that temp holds (all of them when the loop was
\* run to its end); a listed file that temp does not hold is still on the
\* remote folder, while the prompt counted every listed entry.
C20_DeleteOnlyListedAndStaged ==
    pc = "cleanup" =>
        /\ h.deletes \subseteq h.dlisting \cap DOMAIN temp
        /\ args.delete => h.deletes = h.dlisting \cap DOMAIN temp
        /\ \A n \in h.dlisting \ DOMAIN temp : n \in DOMAIN dav
        /\ h.answer = "yes" =>
              h.announced = Cardinality(h.dlisting) + (IF davSubdir THEN 1 ELSE 0)

\* a file that appeared on the remote folder after the staging was announced
\* in the prompt with the staged one, and only the staged one was deleted
C20_Witness ==
    /\ pc = "cleanup"
    /\ h.answer = "yes"
    /\ h.deletes # {}
    /\ \E n \in h.dlisting : n \notin h.listing /\ n \notin DOMAIN temp /\ n \in DOMAIN dav
    /\ h.announced > Cardinality(h.deletes)
====
